---- MODULE Spec2Model ----
(***************************************************************************)
(* A model of the wgpu rendering backend for nuklear (src/src/lib.rs):     *)
(* the Drawer's texture collection and handles, and one draw() call as the *)
(* sequence of calls it makes on its collaborators (device, toolkit,       *)
(* command encoder, render pass).                                          *)
(*                                                                         *)
(* Numbers.  The code computes in f32.  A real number is modelled here as  *)
(* an integer count of a power-of-two unit: vertex Y values and heights in *)
(* units of 1/2^20 pixel (Unit), clip rectangles and scale factors in      *)
(* halves, their products in quarters.  F32 rounds such a count to the     *)
(* nearest value with a 24-bit significand, ties to even, as IEEE-754      *)
(* single precision does.                                                  *)
(***************************************************************************)
EXTENDS Integers, Sequences, FiniteSets, TLC

VARIABLES
    tex,      \* Drawer.tex: the WgpuTexture resources, in push order
    col,      \* Drawer.col: Option<Color>, <<>> = None, <<c>> = Some(c)
    nextRes,  \* the device's count of WgpuTexture resources created so far
    created,  \* history: the resource created by the k-th add_texture call
    handles,  \* history: the handle returned by the k-th add_texture call
    queue,    \* what has been submitted to the GPU queue, in order
    pc,       \* where the Drawer is: "Idle", inside draw(), or "Aborted"
    frame,    \* the arguments of the current (or last) draw() call
    vbf,      \* the mapped vertex staging buffer: one entry per Vertex slot
    vorig,    \* history: the Y the toolkit wrote for each vertex it produced
    walked,   \* history: the commands the iterator has yielded in this draw()
    start,    \* draw()'s running index offset
    calls     \* the calls the current (or last) draw() made, in order

vars == <<tex, col, nextRes, created, handles, queue, pc, frame, vbf, vorig,
          walked, start, calls>>

-----------------------------------------------------------------------------
(* Bounds of the model *)

MaxTex == 2      \* add_texture calls per run
MaxCmds == 3     \* commands the toolkit's iterator yields per draw()
VboSlots == 2    \* vsz / size_of::<Vertex>(): Vertex slots in the vertex buffer

(* Program constants *)

F32Precision == 24    \* significand bits of f32

Unit == 2^20          \* counts per pixel for vertex Y values and heights

-----------------------------------------------------------------------------
(* Option<T> as a sequence of length at most one *)

None == <<>>
Some(x) == <<x>>
IsSome(o) == Len(o) = 1
Unwrap(o) == o[1]

-----------------------------------------------------------------------------
(* f32 arithmetic *)

Abs(n) == IF n < 0 THEN -n ELSE n

RECURSIVE QuantumFrom(_, _)
QuantumFrom(a, q) ==
    IF a \div q < 2^F32Precision THEN q ELSE QuantumFrom(a, 2 * q)

\* The spacing of f32 values around the count n.
Quantum(n) == QuantumFrom(Abs(n), 1)

\* n rounded to the nearest multiple of q, ties to the even multiple.
RoundNearestEven(n, q) ==
    LET lo == (n \div q) * q
        r  == n - lo
    IN  IF 2 * r < q THEN lo
        ELSE IF 2 * r > q THEN lo + q
        ELSE IF (lo \div q) % 2 = 0 THEN lo ELSE lo + q

F32(n) == RoundNearestEven(n, Quantum(n))

\* `height as f32`, in Unit counts.
U32AsF32(n) == F32(n * Unit)

\* `v as u32` for an f32 v given as a count of 1/unit: the fraction is
\* dropped (towards zero) and a negative value saturates at 0, as the
\* language defines the cast.  (Values of 2^32 and more saturate at
\* u32::MAX; the model's numbers stay below that.)
F32AsU32(v, unit) == IF v < 0 THEN 0 ELSE v \div unit

\* A plausible slip: rounding to the nearest pixel instead of truncating.
F32AsU32Rounded(v, unit) == IF v < 0 THEN 0 ELSE (2 * v + unit) \div (2 * unit)

-----------------------------------------------------------------------------
(* Inputs *)

\* Clip rectangles <<x, y, w, h>>, in halves.
ClipExample == <<20, 40, 200, 100>>     \* (10, 20, 100, 50)
ClipFraction == <<-5, 3, 15, 5>>        \* (-2.5, 1.5, 7.5, 2.5)
Clips == {ClipExample, ClipFraction}

ElemCounts == {0, 3, 6}

\* cmd.texture().id(): Option<i32>
TextureIds == {None} \cup {Some(i) : i \in 0..2}

\* The commands the iterator can yield: every element count with every
\* texture id; the larger spans carry the first clip rectangle, the others
\* the second.
ClipFor(n) == IF n = 6 THEN ClipExample ELSE ClipFraction

Commands == { [elem_count |-> n, texture |-> t, clip_rect |-> ClipFor(n)] :
                n \in ElemCounts, t \in TextureIds }

\* draw()'s width, height and scale (scale in halves).
Targets == { [width |-> 800, height |-> 600, scale |-> <<4, 4>>],
             [width |-> 400, height |-> 300, scale |-> <<3, 3>>],
             [width |-> 400, height |-> 300, scale |-> <<2, 2>>] }

\* Y values the toolkit writes, in Unit counts: 0, 150.5 and 1 + 1/2^20.
ToolkitY == {0, 150 * Unit + Unit \div 2, Unit + 1}

Colors == {"bg"}
FallbackColor == "rgba(1,2,3,1)"

Uninit == [init |-> FALSE, y |-> 0]
Written(y) == [init |-> TRUE, y |-> y]

-----------------------------------------------------------------------------
(* Pure functions of the Drawer *)

Call(op, arg) == [op |-> op, arg |-> arg]

\* Vec::get: a 0-based index into the sequence.
Get(t, i) == IF i >= 0 /\ i < Len(t) THEN Some(t[i + 1]) ELSE None

\* A plausible slip: the handle used as the index, without the - 1.
FindResOffByOne(t, id) ==
    IF id > 0 /\ id <= Len(t) THEN Get(t, id) ELSE None

\* Drawer::find_res
FindRes(t, id) ==
    IF id > 0 /\ id <= Len(t) THEN Get(t, id - 1) ELSE None

\* Handle::from_id(self.tex.len() as i32), after the push
HandleFor(t) == Len(t)

\* A plausible slip: the flip written the other way round.
FlipYReversed(height, y) == F32(y - U32AsF32(height))

\* v.pos[1] = height as f32 - v.pos[1]
FlipY(height, y) == F32(U32AsF32(height) - y)

\* The flip loop runs over every Vertex slot of the mapped buffer, written
\* by the toolkit or not; an unwritten slot holds no defined value before
\* or after.
FlipAll(height, buf) ==
    [i \in 1..Len(buf) |->
        IF buf[i].init THEN Written(FlipY(height, buf[i].y)) ELSE Uninit]

LoadOpAlwaysClear(c) == "Clear"

\* load_op: match self.col { Some(_) => Clear, _ => Load }
LoadOp(c) == IF IsSome(c) THEN "Clear" ELSE "Load"

\* clear_color: self.col.unwrap_or(Color { r: 1.0, g: 2.0, b: 3.0, a: 1.0 })
ClearColor(c) == IF IsSome(c) THEN Unwrap(c) ELSE FallbackColor

\* A plausible slip: the scaled clip rectangle rounded to the nearest pixel.
ScissorRounded(rect, scale) ==
    << F32AsU32Rounded(F32(rect[1] * scale[1]), 4),
       F32AsU32Rounded(F32(rect[2] * scale[2]), 4),
       F32AsU32Rounded(F32(rect[3] * scale[1]), 4),
       F32AsU32Rounded(F32(rect[4] * scale[2]), 4) >>

\* ((x * scale.x) as u32, (y * scale.y) as u32, (w * scale.x) as u32,
\*  (h * scale.y) as u32): halves times halves are quarters.
Scissor(rect, scale) ==
    << F32AsU32(F32(rect[1] * scale[1]), 4),
       F32AsU32(F32(rect[2] * scale[2]), 4),
       F32AsU32(F32(rect[3] * scale[1]), 4),
       F32AsU32(F32(rect[4] * scale[2]), 4) >>

SkippedOnlyNegative(cmd) == cmd.elem_count < 0

\* if cmd.elem_count() < 1 { continue; }
Skipped(cmd) == cmd.elem_count < 1

\* cmd.texture().id().unwrap() and self.find_res(id).unwrap() both succeed
Resolves(t, cmd) ==
    /\ IsSome(cmd.texture)
    /\ IsSome(FindRes(t, Unwrap(cmd.texture)))

Resource(t, cmd) == Unwrap(FindRes(t, Unwrap(cmd.texture)))

SpanEndFromZero(s, cmd) == cmd.elem_count

\* end = start + cmd.elem_count()
SpanEnd(s, cmd) == s + cmd.elem_count

\* A plausible slip: the draw issued before its own state is set, so that it
\* runs with the previous command's texture and scissor.
CmdCallsStateLate(res, rect, s, e) ==
    << Call("draw_indexed", <<s, e>>),
       Call("set_bind_group", <<1, "tex", res>>),
       Call("set_scissor_rect", rect) >>

\* The render-pass calls of one drawn command.
CmdCalls(res, rect, s, e) ==
    << Call("set_bind_group", <<1, "tex", res>>),
       Call("set_scissor_rect", rect),
       Call("draw_indexed", <<s, e>>) >>

SeqsUpTo(S, n) == UNION { [1..k -> S] : k \in 0..n }

-----------------------------------------------------------------------------
(* The state after Drawer::new *)

Init ==
    /\ tex = <<>>
    /\ col \in { Some(c) : c \in Colors }
    /\ nextRes = 0
    /\ created = <<>>
    /\ handles = <<>>
    /\ queue = <<>>
    /\ pc = "Idle"
    /\ frame = CHOOSE t \in Targets : t.width = 800
    /\ vbf = <<>>
    /\ vorig = <<>>
    /\ walked = <<>>
    /\ start = 0
    /\ calls = <<>>

-----------------------------------------------------------------------------
(* Operations *)

\* Drawer::add_texture.  WgpuTexture::new creates the texture, sampler and
\* bind group and submits the upload on its own encoder.
AddTexture ==
    /\ pc = "Idle"
    /\ nextRes < MaxTex
    /\ LET res == nextRes + 1 IN
        /\ nextRes' = res
        /\ queue' = Append(queue, [kind |-> "texture_upload", res |-> res])
        /\ tex' = Append(tex, res)
        /\ created' = Append(created, res)
        /\ handles' = Append(handles, HandleFor(tex'))
    /\ UNCHANGED <<col, pc, frame, vbf, vorig, walked, start, calls>>

\* `pub col`: the owner of the Drawer may set or clear the colour between
\* calls.
SetCol ==
    /\ pc = "Idle"
    /\ \E c \in {None} \cup { Some(x) : x \in Colors } :
        /\ c # col
        /\ col' = c
    /\ UNCHANGED <<tex, nextRes, created, handles, queue, pc, frame, vbf,
                   vorig, walked, start, calls>>

\* draw(), up to the allocation of the staging buffers.  The histories of
\* the previous draw() are dropped here.
DrawBegin ==
    /\ pc = "Idle"
    /\ \E t \in Targets : frame' = t
    /\ vbf' = [i \in 1..VboSlots |-> Uninit]
    /\ vorig' = <<>>
    /\ walked' = <<>>
    /\ start' = 0
    /\ calls' = << Call("create_buffer_mapped", "vbf"),
                   Call("create_buffer_mapped", "ebf"),
                   Call("create_buffer_with_data", "ortho") >>
    /\ pc' = "StagingAllocated"
    /\ UNCHANGED <<tex, col, nextRes, created, handles, queue>>

\* ctx.convert writes the vertices into the mapped buffer, then every slot
\* of the buffer is flipped.
Convert ==
    /\ pc = "StagingAllocated"
    /\ \E ys \in SeqsUpTo(ToolkitY, VboSlots) :
        /\ vorig' = ys
        /\ vbf' = FlipAll(frame.height,
                     [i \in 1..VboSlots |->
                        IF i <= Len(ys) THEN Written(ys[i]) ELSE vbf[i]])
    /\ calls' = Append(calls, Call("convert", "cmd"))
    /\ pc' = "Converted"
    /\ UNCHANGED <<tex, col, nextRes, created, handles, queue, frame, walked,
                   start>>

\* A plausible slip: the uniform copy recorded after the pass is begun.
OpenRenderPassCopyLate ==
    /\ pc = "Converted"
    /\ vbf' = <<>>
    /\ vorig' = <<>>
    /\ calls' = calls \o
         << Call("finish", "vbf"),
            Call("finish", "ebf"),
            Call("begin_render_pass", <<LoadOp(col), ClearColor(col)>>),
            Call("copy_buffer_to_buffer", "ubf"),
            Call("set_pipeline", "pso"),
            Call("set_vertex_buffer", "vbf"),
            Call("set_index_buffer", "ebf"),
            Call("set_bind_group", <<0, "ubg", 0>>) >>
    /\ start' = 0
    /\ pc' = "RenderPassOpen"
    /\ UNCHANGED <<tex, col, nextRes, created, handles, queue, frame, walked>>

\* The staging buffers are unmapped, the uniform copy is recorded, the pass
\* is begun and its fixed state is set.  Once unmapped, the vertex data is
\* no longer in the program's reach.
OpenRenderPass ==
    /\ pc = "Converted"
    /\ vbf' = <<>>
    /\ vorig' = <<>>
    /\ calls' = calls \o
         << Call("finish", "vbf"),
            Call("finish", "ebf"),
            Call("copy_buffer_to_buffer", "ubf"),
            Call("begin_render_pass", <<LoadOp(col), ClearColor(col)>>),
            Call("set_pipeline", "pso"),
            Call("set_vertex_buffer", "vbf"),
            Call("set_index_buffer", "ebf"),
            Call("set_bind_group", <<0, "ubg", 0>>) >>
    /\ start' = 0
    /\ pc' = "RenderPassOpen"
    /\ UNCHANGED <<tex, col, nextRes, created, handles, queue, frame, walked>>

\* The iterator yields a command with no elements: `continue`.
WalkSkip ==
    /\ pc = "RenderPassOpen"
    /\ Len(walked) < MaxCmds
    /\ \E cmd \in Commands :
        /\ Skipped(cmd)
        /\ walked' = Append(walked, cmd)
    /\ UNCHANGED <<tex, col, nextRes, created, handles, queue, pc, frame, vbf,
                   vorig, start, calls>>

\* A plausible slip: an unresolved texture skipped instead of unwrapped.
WalkAbortSkipping ==
    /\ pc = "RenderPassOpen"
    /\ Len(walked) < MaxCmds
    /\ \E cmd \in Commands :
        /\ ~Skipped(cmd)
        /\ ~Resolves(tex, cmd)
        /\ walked' = Append(walked, cmd)
    /\ UNCHANGED <<tex, col, nextRes, created, handles, queue, pc, frame, vbf,
                   vorig, start, calls>>

\* The iterator yields a command with elements whose texture id is absent or
\* resolves to nothing: one of the two unwrap() calls panics.
WalkAbort ==
    /\ pc = "RenderPassOpen"
    /\ Len(walked) < MaxCmds
    /\ \E cmd \in Commands :
        /\ ~Skipped(cmd)
        /\ ~Resolves(tex, cmd)
        /\ walked' = Append(walked, cmd)
    /\ pc' = "Aborted"
    /\ UNCHANGED <<tex, col, nextRes, created, handles, queue, frame, vbf,
                   vorig, start, calls>>

\* The iterator yields a command with elements and a texture that resolves.
WalkDraw ==
    /\ pc = "RenderPassOpen"
    /\ Len(walked) < MaxCmds
    /\ \E cmd \in Commands :
        /\ ~Skipped(cmd)
        /\ Resolves(tex, cmd)
        /\ walked' = Append(walked, cmd)
        /\ LET end == SpanEnd(start, cmd) IN
            /\ calls' = calls \o CmdCalls(Resource(tex, cmd),
                                          Scissor(cmd.clip_rect, frame.scale),
                                          start, end)
            /\ start' = end
    /\ UNCHANGED <<tex, col, nextRes, created, handles, queue, pc, frame, vbf,
                   vorig>>

\* A plausible slip: draw() submitting the frame itself.
DrawReturnSubmitting ==
    /\ pc = "RenderPassOpen"
    /\ calls' = Append(calls, Call("end_render_pass", "rpass"))
    /\ queue' = Append(queue, [kind |-> "frame", res |-> 0])
    /\ pc' = "Idle"
    /\ UNCHANGED <<tex, col, nextRes, created, handles, frame, vbf, vorig,
                   walked, start>>

\* The iterator is exhausted: draw() returns, which drops (ends) the render
\* pass.  The encoder, with the frame recorded in it, stays with the caller.
DrawReturn ==
    /\ pc = "RenderPassOpen"
    /\ calls' = Append(calls, Call("end_render_pass", "rpass"))
    /\ pc' = "Idle"
    /\ UNCHANGED <<tex, col, nextRes, created, handles, queue, frame, vbf,
                   vorig, walked, start>>

Next ==
    \/ AddTexture
    \/ SetCol
    \/ DrawBegin
    \/ Convert
    \/ OpenRenderPass
    \/ WalkSkip
    \/ WalkAbort
    \/ WalkDraw
    \/ DrawReturn

Spec == Init /\ [][Next]_vars

-----------------------------------------------------------------------------
(* What the claims speak of *)

Last(s) == s[Len(s)]
Front(s) == SubSeq(s, 1, Len(s) - 1)

Positions(op) == { j \in 1..Len(calls) : calls[j].op = op }

\* The calls of op, in order, and the position of the only one.
CallsOf(op) == SelectSeq(calls, LAMBDA e : e.op = op)
Only(op) == CHOOSE j \in Positions(op) : TRUE

Count(op) == Cardinality(Positions(op))

\* The ranges of the indexed draw calls, in order.
Ranges == [i \in 1..Count("draw_indexed") |-> CallsOf("draw_indexed")[i].arg]

IsSet1(e) == e.op = "set_bind_group" /\ e.arg[1] = 1

\* The calls of the draw-span walk: texture bind groups, scissors, draws.
WalkCalls ==
    SelectSeq(calls, LAMBDA e :
        e.op \in {"set_scissor_rect", "draw_indexed"} \/ IsSet1(e))

Set0Positions ==
    { j \in Positions("set_bind_group") : calls[j].arg[1] = 0 }

Set1Positions ==
    { j \in Positions("set_bind_group") : calls[j].arg[1] = 1 }

NonEmpty(w) == SelectSeq(w, LAMBDA c : c.elem_count >= 1)

\* The commands with elements that draw() has got past: on an abort, all
\* but the one it aborted on.
Passed == NonEmpty(IF pc = "Aborted" THEN Front(walked) ELSE walked)

ValidId(c) == IsSome(c.texture) /\ Unwrap(c.texture) \in 1..Len(tex)

RECURSIVE SumCounts(_)
SumCounts(w) == IF w = <<>> THEN 0 ELSE w[1].elem_count + SumCounts(Tail(w))

InDraw == pc \in {"StagingAllocated", "Converted", "RenderPassOpen"}
Returned == pc = "Idle" /\ calls # <<>>

\* The step in which the iterator yields its next command.
Yields == pc = "RenderPassOpen" /\ Len(walked') = Len(walked) + 1

-----------------------------------------------------------------------------
\* C1: after N add_texture calls, interleaved with any draw calls, the k-th
\* call returned handle k, find_res(k) is the resource the k-th call created
\* for 1 <= k <= N, and find_res(h) is "not found" for h <= 0 and h > N.
C1_HandlesResolve ==
    /\ Len(handles) = Len(created)
    /\ \A k \in 1..Len(created) :
        /\ handles[k] = k
        /\ FindRes(tex, handles[k]) = Some(created[k])
    /\ \A h \in (-2)..(Len(created) + 2) :
        (h <= 0 \/ h > Len(created)) => FindRes(tex, h) = None

C1_Witness ==
    /\ Len(created) = 2
    /\ Returned
    /\ Count("draw_indexed") >= 1

\* C2: in every draw(), the index ranges of the indexed draw calls start at
\* 0, each begins where the previous one ended, each has the length of its
\* command's element count, and the last ends at the sum of the element
\* counts.
C2_SpansPartition ==
    \A range \in {Ranges} : \A cmds \in {Passed} :
        LET n == Len(range) IN
        /\ n = Len(cmds)
        /\ \A i \in 1..n :
            /\ range[i][1] = IF i = 1 THEN 0 ELSE range[i - 1][2]
            /\ range[i][2] - range[i][1] = cmds[i].elem_count
        /\ n >= 1 => range[n][2] = SumCounts(cmds)
        /\ pc = "RenderPassOpen" => start = SumCounts(walked)

C2_Witness ==
    /\ Returned
    /\ Count("draw_indexed") = 3
    /\ Ranges = << <<0, 3>>, <<3, 9>>, <<9, 12>> >>

\* C3: the number of indexed draw calls equals the number of commands with
\* elements; the i-th draw call is issued for the i-th such command, in
\* emission order, with that command's texture bind group (set 1) and
\* scissor rectangle, each set once between the previous draw call and this
\* one; commands sharing a texture are not merged.
C3_OneDrawPerCommand ==
    \A w \in {WalkCalls} : \A cmds \in {Passed} :
        LET n == Len(cmds) IN
        /\ Count("draw_indexed") = n
        /\ Len(w) = 3 * n
        /\ \A i \in 1..n :
            LET state == {w[3 * i - 2], w[3 * i - 1]} IN
            /\ Call("set_bind_group",
                    <<1, "tex", created[Unwrap(cmds[i].texture)]>>) \in state
            /\ Call("set_scissor_rect",
                    Scissor(cmds[i].clip_rect, frame.scale)) \in state
            /\ w[3 * i].op = "draw_indexed"
            /\ w[3 * i].arg[2] - w[3 * i].arg[1] = cmds[i].elem_count

C3_Witness ==
    /\ Returned
    /\ Len(walked) = 2
    /\ walked[1].texture = Some(1)
    /\ walked[2].texture = Some(1)
    /\ walked[1].elem_count = 6
    /\ walked[2].elem_count = 6
    /\ Count("draw_indexed") = 2

\* A step that yields a command with no elements changes nothing else.
C4_Step ==
    (Yields /\ Last(walked').elem_count = 0)
        => (calls' = calls /\ start' = start /\ pc' = pc)

\* C4: a command with no elements has no effect on the walk: no draw call,
\* no bind-group switch, no scissor update, no abort whatever its texture
\* id, and the running index offset is unchanged.
C4_EmptyCommandNoEffect == [][C4_Step]_vars

C4_Witness ==
    /\ pc = "RenderPassOpen"
    /\ Len(walked) = 3
    /\ walked[1].elem_count = 3
    /\ walked[2].elem_count = 0
    /\ ~ValidId(walked[2])
    /\ walked[3].elem_count = 6
    /\ Count("draw_indexed") = 2
    /\ Ranges = << <<0, 3>>, <<3, 9>> >>

\* A step that yields a command with elements and no valid texture id
\* aborts and issues nothing; nothing happens after an abort.
C5_Step ==
    /\ (Yields /\ Last(walked').elem_count >= 1 /\ ~ValidId(Last(walked')))
            => (pc' = "Aborted" /\ calls' = calls)
    /\ pc # "Aborted"

C5_AllOrAbort ==
    pc # "Aborted" => Count("draw_indexed") = Len(NonEmpty(walked))

\* C5: on a command with elements whose texture id is absent or not in
\* 1..len(resources), draw() aborts: nothing is issued for that command or
\* any later one; a frame that does not abort has issued the draw calls of
\* all its commands with elements.
C5_AbortOnUnresolved == [][C5_Step]_vars /\ []C5_AllOrAbort

C5_Witness ==
    /\ pc = "Aborted"
    /\ Len(walked) = 2
    /\ Count("draw_indexed") = 1
    /\ Last(walked).texture = Some(2)
    /\ Len(tex) = 1

\* The pass that is open was begun with the load operation col asks for
\* (col does not change while draw() runs).
C6_LoadOp ==
    pc \in {"RenderPassOpen", "Aborted"} =>
        /\ Count("begin_render_pass") = 1
        /\ LET pass == calls[Only("begin_render_pass")].arg IN
            /\ IsSome(col) => pass = <<"Clear", Unwrap(col)>>
            /\ ~IsSome(col) => pass[1] = "Load"

C6_ColStep ==
    col' # col =>
        /\ pc = "Idle" /\ pc' = "Idle"
        /\ UNCHANGED <<tex, created, queue, calls>>

\* C6: the render pass clears with the configured colour iff col is set at
\* the time of the call, and loads otherwise; a fresh Drawer has a colour
\* set; neither draw() nor add_texture changes col.
C6_ClearIffColour == IsSome(col) /\ []C6_LoadOp /\ [][C6_ColStep]_vars

C6_Witness ==
    /\ pc = "RenderPassOpen"
    /\ col = None
    /\ calls[Only("begin_render_pass")].arg[1] = "Load"
    /\ Len(tex) = 1

\* C7, as claimed: by the time draw() returns, the frame's recorded work
\* has been submitted to the GPU queue.
C7_SubmittedOnReturn ==
    Returned => \E i \in 1..Len(queue) : queue[i].kind = "frame"

\* The control states follow one another in this order only, and no step
\* of draw() changes the queue.
C7_Step ==
    /\ pc' # pc =>
        <<pc, pc'>> \in { <<"Idle", "StagingAllocated">>,
                          <<"StagingAllocated", "Converted">>,
                          <<"Converted", "RenderPassOpen">>,
                          <<"RenderPassOpen", "Idle">>,
                          <<"RenderPassOpen", "Aborted">> }
    /\ (pc # "Idle" \/ pc' # "Idle") => queue' = queue

C7_Recorded ==
    Returned =>
        /\ Count("copy_buffer_to_buffer") = 1
        /\ Count("begin_render_pass") = 1
        /\ Last(calls).op = "end_render_pass"
        /\ \A i \in 1..Len(queue) : queue[i].kind = "texture_upload"

\* C7, as amended: a draw() call passes Idle -> StagingAllocated ->
\* Converted -> RenderPassOpen and from there returns to Idle (or aborts);
\* no step of it submits anything to the GPU queue; when it returns, the
\* uniform copy and the render pass are recorded in the caller's encoder and
\* the queue holds the texture uploads only.
C7_RecordedNotSubmitted == [][C7_Step]_vars /\ []C7_Recorded

C7_Witness ==
    /\ Returned
    /\ Count("draw_indexed") = 2
    /\ Len(queue) = 1

\* Truncation towards zero of a count of quarters, as a signed integer.
TruncQuarters(p) == IF p < 0 THEN -((-p) \div 4) ELSE p \div 4

\* The scissor rectangles set, in order: the i-th is set for the i-th
\* command with elements.
Scissors ==
    [i \in 1..Count("set_scissor_rect") |-> CallsOf("set_scissor_rect")[i].arg]

\* C8, as claimed: the scissor rectangle of every drawn command is
\* (trunc(x*sx), trunc(y*sy), trunc(w*sx), trunc(h*sy)).
C8_ScissorTruncates ==
    \A sc \in {Scissors} : \A i \in 1..Len(sc) :
        LET r == Passed[i].clip_rect
            s == frame.scale
        IN  sc[i] = << TruncQuarters(r[1] * s[1]),
                       TruncQuarters(r[2] * s[2]),
                       TruncQuarters(r[3] * s[1]),
                       TruncQuarters(r[4] * s[2]) >>

\* A count of quarters as whole pixels, the fraction dropped, negative as 0.
ClampTrunc(p) == IF p < 0 THEN 0 ELSE p \div 4

\* C8, as amended: each component of the scissor rectangle is the f32
\* product converted to u32: truncated towards zero (not rounded) when the
\* product is not negative, and 0 when the product is negative; clip
\* (10, 20, 100, 50) with scale (2, 2) gives (20, 40, 200, 100).
C8_ScissorTruncatesOrClamps ==
    \A sc \in {Scissors} :
        /\ Len(sc) = Len(Passed)
        /\ \A i \in 1..Len(sc) :
            LET r == Passed[i].clip_rect
                s == frame.scale
            IN  /\ sc[i] = << ClampTrunc(r[1] * s[1]),
                              ClampTrunc(r[2] * s[2]),
                              ClampTrunc(r[3] * s[1]),
                              ClampTrunc(r[4] * s[2]) >>
                /\ (r = <<20, 40, 200, 100>> /\ s = <<4, 4>>)
                        => sc[i] = <<20, 40, 200, 100>>

C8_Witness ==
    /\ pc = "RenderPassOpen"
    /\ frame.scale = <<3, 3>>
    /\ Len(Passed) = 2
    /\ Passed[1].clip_rect = <<-5, 3, 15, 5>>
    /\ Passed[2].clip_rect = <<20, 40, 200, 100>>
    /\ Scissors = << <<0, 2, 11, 3>>, <<15, 30, 150, 75>> >>

\* C9, as claimed: after the flip every produced vertex has
\* y_final = height - y_original, and a second flip with the same height
\* restores the original Y.
C9_FlipExactAndInvolutive ==
    pc = "Converted" =>
        \A i \in 1..Len(vorig) :
            /\ vbf[i].y = frame.height * Unit - vorig[i]
            /\ FlipY(frame.height, vbf[i].y) = vorig[i]

\* C9, as amended: after the flip every produced vertex has y_final equal
\* to height - y_original rounded to the nearest f32; when that difference
\* is itself an f32 value, y_final = height - y_original exactly and a second
\* flip with the same height restores the original Y.
C9_FlipRounded ==
    pc = "Converted" =>
        \A i \in 1..Len(vorig) :
            LET exact == frame.height * Unit - vorig[i]
                q == Quantum(exact)
            IN  /\ vbf[i].init
                /\ 2 * Abs(vbf[i].y - exact) <= q
                /\ vbf[i].y % q = 0
                /\ exact % q = 0 =>
                    /\ vbf[i].y = exact
                    /\ FlipY(frame.height, vbf[i].y) = vorig[i]

C9_Witness ==
    /\ pc = "Converted"
    /\ frame.height = 300
    /\ Len(vorig) = 2
    /\ vorig[1] = 150 * Unit + Unit \div 2
    /\ vbf[1].y = 149 * Unit + Unit \div 2
    /\ vorig[2] = Unit + 1
    /\ vbf[2].y = 299 * Unit

\* C10: in every draw(), conversion and the uniform copy come before the
\* render pass is opened, exactly one pass is opened, and in it the
\* pipeline, the vertex buffer, the index buffer and the uniform bind group
\* (set 0) are each bound exactly once, before the first indexed draw call.
C10_SetupOnceBeforeDraws ==
    LET fixed == {"set_pipeline", "set_vertex_buffer", "set_index_buffer"}
        opened == pc \in {"RenderPassOpen", "Aborted"} \/ Returned
    IN  /\ Count("begin_render_pass") <= 1
        /\ opened =>
            /\ Count("convert") = 1
            /\ Count("copy_buffer_to_buffer") = 1
            /\ Count("begin_render_pass") = 1
            /\ Only("convert") < Only("begin_render_pass")
            /\ Only("copy_buffer_to_buffer") < Only("begin_render_pass")
            /\ Cardinality(Set0Positions) = 1
            /\ \A op \in fixed : Count(op) = 1
            /\ \A j \in Set0Positions \cup UNION { Positions(op) : op \in fixed } :
                /\ Only("begin_render_pass") < j
                /\ \A d \in Positions("draw_indexed") : j < d
        /\ ~opened => Count("draw_indexed") = 0

C10_Witness ==
    /\ Returned
    /\ Count("draw_indexed") = 3
    /\ Count("set_pipeline") = 1
    /\ Cardinality(Set1Positions) = 3

====
